---- MODULE Spec2Model ----
(***************************************************************************)
(* Model of src/app.py: the SimpleFaceRecognizer (feature comparison,      *)
(* duplicate guard, enrollment, recognition), its JSON persistence and the *)
(* Flask handlers that drive it.                                           *)
(*                                                                         *)
(* Abstractions, stated once:                                              *)
(*  - An image is the list of face descriptors the Haar detector and the   *)
(*    extractor yield for it (detect_faces + extract_face_features are     *)
(*    deterministic functions of the image), or an undecodable payload.    *)
(*  - A descriptor has 3 integer intensities instead of 100*100.           *)
(*  - A feature vector is num/den: raw descriptors have den = 1, np.mean   *)
(*    of n descriptors has den = n.                                        *)
(*  - A similarity is the exact cosine d / sqrt(n), kept as the pair       *)
(*    (d, n); float rounding error is not modelled.  0/0 is NaN.           *)
(*  - Thresholds are in percent, confidences in hundredths of a percent.   *)
(*  - 'registered_at' (a timestamp no code reads) is left out.             *)
(***************************************************************************)
EXTENDS Integers, Sequences, FiniteSets, TLC

VARIABLES
    known_faces,  \* recognizer.known_faces: the dict, as its items in insertion order
    disk,         \* the file FACE_DATA_FILE
    res,          \* what the last call returned to its caller
    call,         \* the arguments of the last enrollment call, where a specification logs them
    th            \* per request thread: position and locals of an overlapping register_face

vars == <<known_faces, disk, res, call, th>>

(***************************************************************************)
(* Program constants                                                        *)
(***************************************************************************)
RequiredImages == 3
DefaultThreshold == 60
EnrollThreshold == 85
PreviewThreshold == 80
StrongPrimary == 80
IndividualThreshold == 75

(***************************************************************************)
(* Bounds and input sets                                                    *)
(***************************************************************************)
NumNames == 2
MaxQueryFaces == 2

NamePool == <<"alice", "bob", "carol", "dave">>
Names == {NamePool[i] : i \in 1..NumNames}

dY == <<0, 1, 0>>
dA == <<2, 4, 2>>
dB == <<4, 2, 2>>
QueryDescs ==
    {dY, dB, <<1, 1, 3>>, <<0, 0, 0>>, <<1, 0, 0>>, <<3, 4, 2>>, <<1, 1, 1>>, <<0, 2, 1>>}

Img(fs) == [valid |-> TRUE, faces |-> fs]
InvalidImage == [valid |-> FALSE, faces |-> <<>>]
NoFaceImage == Img(<<>>)
TwoFaceImage == Img(<<dY, dB>>)

(***************************************************************************)
(* Arithmetic on descriptors and similarities                               *)
(***************************************************************************)
RECURSIVE DotFrom(_, _, _)
DotFrom(a, b, i) ==
    IF i > Len(a) THEN 0 ELSE a[i] * b[i] + DotFrom(a, b, i + 1)

Dot(a, b) == DotFrom(a, b, 1)

NaN == [nan |-> TRUE, d |-> 0, n |-> 1]
Zero == [nan |-> FALSE, d |-> 0, n |-> 1]

\* a > b on floats: false when either is NaN
SimGt(a, b) ==
    /\ ~a.nan
    /\ ~b.nan
    /\ a.d * a.d * b.n > b.d * b.d * a.n

\* similarity > pct/100 and similarity < pct/100
SimGtPct(s, pct) == ~s.nan /\ (100 * s.d) * (100 * s.d) > pct * pct * s.n
SimLtPct(s, pct) == ~s.nan /\ (100 * s.d) * (100 * s.d) < pct * pct * s.n

\* Python's max(a, b): b if b > a else a
PyMax(a, b) == IF SimGt(b, a) THEN b ELSE a

\* (2k-1)^2 * n <= (20000 d)^2, in two limbs of base 10^4 (TLC integers are 32 bit)
HalfBelow(k, s) ==
    LET a2 == (2 * k - 1) * (2 * k - 1)
        h == a2 \div 10000
        l == a2 % 10000
        hiL == h * s.n + ((l * s.n) \div 10000)
        loL == (l * s.n) % 10000
        hiR == 40000 * s.d * s.d
    IN hiL < hiR \/ (hiL = hiR /\ loL = 0)

RECURSIVE RoundSearch(_, _, _)
RoundSearch(lo, hi, s) ==
    IF lo = hi THEN lo
    ELSE LET mid == (lo + hi + 1) \div 2
         IN IF HalfBelow(mid, s) THEN RoundSearch(mid, hi, s)
            ELSE RoundSearch(lo, mid - 1, s)

\* round(best_similarity * 100, 2), in hundredths
Confidence(s) == IF s.d = 0 THEN 0 ELSE RoundSearch(0, 10000, s)

(***************************************************************************)
(* The dict known_faces and its JSON file                                   *)
(***************************************************************************)
RECURSIVE IndexOf(_, _, _)
IndexOf(store, name, i) ==
    IF i > Len(store) THEN 0
    ELSE IF store[i].name = name THEN i
    ELSE IndexOf(store, name, i + 1)

\* fault: a membership test that never finds the name
HasNameNever(store, name) == FALSE

\* name in self.known_faces
HasName(store, name) == IndexOf(store, name, 1) # 0

KeyNames(store) == {store[i].name : i \in 1..Len(store)}

\* self.known_faces[name] = rec: a new key goes last, an old key keeps its place
DictSet(store, rec) ==
    LET i == IndexOf(store, rec.name, 1)
    IN IF i = 0 THEN Append(store, rec)
       ELSE [store EXCEPT ![i] = rec]

\* fault: a delete that empties the dict
DictClear(store, name) == <<>>

\* del self.known_faces[name]
DictDel(store, name) ==
    LET i == IndexOf(store, name, 1)
    IN SubSeq(store, 1, i - 1) \o SubSeq(store, i + 1, Len(store))

Absent == [kind |-> "absent", doc |-> <<>>]
Corrupt == [kind |-> "corrupt", doc |-> <<>>]

\* json.dump(self.known_faces, f): the object's members, key and value, in dict
\* order; 'all_features' is a member of the value when the record has it
json_dump(store) ==
    [kind |-> "json",
     doc |-> [i \in 1..Len(store) |->
                [key |-> store[i].name,
                 value |-> [features |-> store[i].features,
                            has_all |-> store[i].has_all,
                            all_features |-> store[i].all_features,
                            image_count |-> store[i].image_count]]]]

RECURSIVE json_load_from(_, _, _)
json_load_from(doc, i, acc) ==
    IF i > Len(doc) THEN acc
    ELSE json_load_from(doc, i + 1,
             DictSet(acc, [name |-> doc[i].key,
                           features |-> doc[i].value.features,
                           has_all |-> doc[i].value.has_all,
                           all_features |-> doc[i].value.all_features,
                           image_count |-> doc[i].value.image_count]))

\* json.load(f): the members inserted one by one into a new dict
json_load(d) == json_load_from(d.doc, 1, <<>>)

load_known_faces(d) ==
    IF d.kind = "json" THEN json_load(d) ELSE <<>>

\* save_known_faces under the outcome io of the write: open(..., 'w') fails and
\* leaves the file, or truncates it and json.dump fails part way, or all is written
save_known_faces(store, d, io) ==
    CASE io = "ok" -> json_dump(store)
      [] io = "open_failed" -> d
      [] OTHER -> Corrupt

IoOutcomes == {"ok", "open_failed", "write_failed"}

(***************************************************************************)
(* SimpleFaceRecognizer                                                     *)
(***************************************************************************)
\* detect_faces: the detected faces, as indices into the image's faces
detect_faces(image) == [i \in 1..Len(image.faces) |-> i]

extract_face_features(image, face_coords) ==
    [num |-> image.faces[face_coords], den |-> 1]

\* the similarity compare_faces computes: both normalised, then the dot product
Similarity(f1, f2) ==
    IF Dot(f1.num, f1.num) = 0 \/ Dot(f2.num, f2.num) = 0 THEN NaN
    ELSE [nan |-> FALSE, d |-> Dot(f1.num, f2.num),
          n |-> Dot(f1.num, f1.num) * Dot(f2.num, f2.num)]

compare_faces(f1, f2, threshold) ==
    LET similarity == Similarity(f1, f2)
    IN [is_match |-> SimGtPct(similarity, threshold), similarity |-> similarity]

RECURSIVE AnyIndividualSimilar(_, _, _, _)
AnyIndividualSimilar(all, j, features, threshold) ==
    IF j > Len(all) THEN FALSE
    ELSE IF compare_faces(features, all[j], threshold).is_match THEN TRUE
    ELSE AnyIndividualSimilar(all, j + 1, features, threshold)

\* fault: a guard that compares the primary descriptor only
FaceDataSimilarPrimaryOnly(face_data, features, threshold) ==
    compare_faces(features, face_data.features, threshold).is_match

\* one pass of the body of check_face_similarity's loop
FaceDataSimilar(face_data, features, threshold) ==
    \/ compare_faces(features, face_data.features, threshold).is_match
    \/ /\ face_data.has_all
       /\ AnyIndividualSimilar(face_data.all_features, 1, features, threshold)

RECURSIVE check_from(_, _, _, _)
check_from(store, i, features, threshold) ==
    IF i > Len(store) THEN <<>>
    ELSE IF FaceDataSimilar(store[i], features, threshold) THEN <<store[i].name>>
    ELSE check_from(store, i + 1, features, threshold)

\* fault: a guard that never finds a duplicate
check_nothing(store, features, threshold) == <<>>

\* check_face_similarity: <<>> is None, <<name>> a registered name
check_face_similarity(store, features, threshold) ==
    check_from(store, 1, features, threshold)

\* np.mean(all_features, axis=0)
Mean(all) ==
    LET RECURSIVE Sum(_, _)
        Sum(k, j) == IF j > Len(all) THEN 0 ELSE all[j].num[k] + Sum(k, j + 1)
    IN [num |-> [k \in 1..Len(all[1].num) |-> Sum(k, 1)], den |-> Len(all)]

NewRecord(name, all, n) ==
    [name |-> name, features |-> Mean(all), has_all |-> TRUE,
     all_features |-> all, image_count |-> n]

Fail(store, msg, idx, who) ==
    [ok |-> FALSE, msg |-> msg, idx |-> idx, who |-> who,
     store |-> store, save |-> FALSE]

\* `if duplicate_name:` is the truth value of None or of a str
Truthy(opt) == opt # <<>> /\ opt[1] # ""

RECURSIVE register_loop_partial(_, _, _, _, _)
\* fault: the samples accepted before a failing photo are stored under the name
register_loop_partial(store, images, name, i, all) ==
    LET kept == IF all = <<>> THEN store
                ELSE DictSet(store, NewRecord(name, all, Len(all)))
    IN IF i > Len(images)
       THEN [ok |-> TRUE, msg |-> "Registered", idx |-> 0, who |-> "",
             store |-> DictSet(store, NewRecord(name, all, Len(images))),
             save |-> TRUE]
       ELSE LET faces == detect_faces(images[i])
                features == extract_face_features(images[i], faces[1])
                duplicate_name == check_face_similarity(store, features, EnrollThreshold)
            IN IF Len(faces) = 0 THEN Fail(kept, "NoFaceDetected", i, "")
               ELSE IF Len(faces) > 1 THEN Fail(kept, "MultipleFacesDetected", i, "")
               ELSE IF Truthy(duplicate_name)
                    THEN Fail(kept, "FaceAlreadyRegistered", i, duplicate_name[1])
               ELSE register_loop_partial(store, images, name, i + 1,
                                          Append(all, features))

RECURSIVE register_loop(_, _, _, _, _)
register_loop(store, images, name, i, all) ==
    IF i > Len(images)
    THEN [ok |-> TRUE, msg |-> "Registered", idx |-> 0, who |-> "",
          store |-> DictSet(store, NewRecord(name, all, Len(images))),
          save |-> TRUE]
    ELSE LET faces == detect_faces(images[i])
             features == extract_face_features(images[i], faces[1])
             duplicate_name == check_face_similarity(store, features, EnrollThreshold)
         IN IF Len(faces) = 0 THEN Fail(store, "NoFaceDetected", i, "")
            ELSE IF Len(faces) > 1 THEN Fail(store, "MultipleFacesDetected", i, "")
            ELSE IF Truthy(duplicate_name)
                 THEN Fail(store, "FaceAlreadyRegistered", i, duplicate_name[1])
            ELSE register_loop(store, images, name, i + 1, Append(all, features))

\* fault: the name is looked up before the photos are counted
register_face_name_first(store, images, name) ==
    IF HasName(store, name) THEN Fail(store, "NameAlreadyRegistered", 0, name)
    ELSE IF Len(images) # RequiredImages THEN Fail(store, "WrongSampleCount", 0, "")
    ELSE register_loop(store, images, name, 1, <<>>)

\* register_face up to its return or its call of save_known_faces (save = TRUE)
register_face(store, images, name) ==
    IF Len(images) # RequiredImages THEN Fail(store, "WrongSampleCount", 0, "")
    ELSE IF HasName(store, name) THEN Fail(store, "NameAlreadyRegistered", 0, name)
    ELSE register_loop(store, images, name, 1, <<>>)

RECURSIVE BestIndividual(_, _, _, _)
BestIndividual(all, j, features, best) ==
    IF j > Len(all) THEN best
    ELSE BestIndividual(all, j + 1, features,
             PyMax(best, compare_faces(features, all[j], DefaultThreshold).similarity))

\* fault: a recognizer that never consults the individual samples
MatchOnePrimaryOnly(face_data, features) ==
    compare_faces(features, face_data.features, DefaultThreshold)

\* the (is_match, similarity) recognize_face settles on for one known face
MatchOne(face_data, features) ==
    LET c == compare_faces(features, face_data.features, DefaultThreshold)
    IN IF face_data.has_all /\ SimLtPct(c.similarity, StrongPrimary)
       THEN LET s == BestIndividual(face_data.all_features, 1, features, c.similarity)
            IN [is_match |-> SimGtPct(s, IndividualThreshold), similarity |-> s]
       ELSE c

RECURSIVE recognize_loop_ties(_, _, _, _, _)
\* fault: a record of equal similarity replaces the earlier one
recognize_loop_ties(store, i, features, best_match, best_similarity) ==
    IF i > Len(store)
    THEN [name |-> IF Truthy(best_match) THEN best_match[1] ELSE "Unknown",
          confidence |-> Confidence(best_similarity)]
    ELSE LET m == MatchOne(store[i], features)
         IN IF ~m.similarity.nan /\ ~SimGt(best_similarity, m.similarity)
            THEN recognize_loop_ties(store, i + 1, features,
                     IF m.is_match THEN <<store[i].name>> ELSE best_match,
                     m.similarity)
            ELSE recognize_loop_ties(store, i + 1, features, best_match, best_similarity)

RECURSIVE recognize_loop(_, _, _, _, _)
recognize_loop(store, i, features, best_match, best_similarity) ==
    IF i > Len(store)
    THEN [name |-> IF Truthy(best_match) THEN best_match[1] ELSE "Unknown",
          confidence |-> Confidence(best_similarity)]
    ELSE LET m == MatchOne(store[i], features)
         IN IF SimGt(m.similarity, best_similarity)
            THEN recognize_loop(store, i + 1, features,
                     IF m.is_match THEN <<store[i].name>> ELSE best_match,
                     m.similarity)
            ELSE recognize_loop(store, i + 1, features, best_match, best_similarity)

recognize_face(store, image) ==
    LET faces == detect_faces(image)
    IN IF Len(faces) = 0 THEN [faces |-> <<>>, msg |-> "No face detected"]
       ELSE [faces |-> [k \in 1..Len(faces) |->
                          recognize_loop(store, 1,
                              extract_face_features(image, faces[k]), <<>>, Zero)],
             msg |-> "Recognition completed"]

(***************************************************************************)
(* Calls, one at a time                                                     *)
(***************************************************************************)
Threads == {1, 2}
Idle == [pc |-> "idle", name |-> "", images |-> <<>>, i |-> 0, all |-> <<>>,
         ret |-> "", solo |-> TRUE, replaced |-> FALSE]

Result(op, ok, msg, idx, who) ==
    [op |-> op, ok |-> ok, msg |-> msg, idx |-> idx, who |-> who,
     image |-> InvalidImage, faces |-> <<>>, dups |-> <<>>]

\* a file written by a version that stored one descriptor per name and no 'all_features'
LegacyRecord(name, d) ==
    [name |-> name, features |-> [num |-> d, den |-> 1], has_all |-> FALSE,
     all_features |-> <<>>, image_count |-> 1]
NoCall == [name |-> "", images |-> <<>>]
Logged(name, images) == call' = [name |-> name, images |-> images]

LegacyFiles == {json_dump(<<LegacyRecord(NamePool[1], dA)>>)}

Init ==
    /\ disk \in {Absent, Corrupt} \cup LegacyFiles
    /\ known_faces = load_known_faces(disk)
    /\ res = Result("init", TRUE, "", 0, "")
    /\ call = NoCall
    /\ th = [t \in Threads |-> Idle]

\* the first start of an installation: no file yet, or an unreadable one
InitEmpty == Init /\ disk.kind # "json"

\* the process is started again: recognizer = SimpleFaceRecognizer()
Restart ==
    /\ known_faces' = load_known_faces(disk)
    /\ res' = Result("init", TRUE, "", 0, "")
    /\ UNCHANGED <<disk, th>>

\* what a call that ran register_face to outcome r leaves, the write ending as io;
\* op's caller sees the exception of a failed write as onError
Registered(op, r, io, onError) ==
    /\ r.save \/ io = "ok"
    /\ known_faces' = r.store
    /\ disk' = (IF r.save THEN save_known_faces(r.store, disk, io) ELSE disk)
    /\ res' = (IF r.save /\ io # "ok" THEN Result(op, FALSE, onError, 0, "")
               ELSE Result(op, r.ok, r.msg, r.idx, r.who))
    /\ UNCHANGED th

\* recognizer.register_face(images, name) called on decoded images
RegisterFace(images, name, io) ==
    \E r \in {register_face(known_faces, images, name)} :
        Registered("register_face", r, io, "Exception")

RECURSIVE validate_from(_, _)
\* the route's loop over images_data: 0 when every photo passes, else <<msg, index>>
validate_from(images_data, i) ==
    IF i > Len(images_data) THEN <<>>
    ELSE IF ~images_data[i].valid THEN <<"InvalidImageFormat", i>>
    ELSE IF Len(detect_faces(images_data[i])) # 1 THEN <<"NotExactlyOneFace", i>>
    ELSE validate_from(images_data, i + 1)

\* POST /register_multiple (and /register_old, the same code); name is the
\* stripped name
register_multiple(name, images_data, io) ==
    LET bad == validate_from(images_data, 1)
        early(msg, idx) ==
            /\ io = "ok"
            /\ res' = Result("register_multiple", FALSE, msg, idx, "")
            /\ UNCHANGED <<known_faces, disk, th>>
    IN IF name = "" THEN early("NameRequired", 0)
       ELSE IF Len(images_data) # RequiredImages THEN early("WrongSampleCount", 0)
       ELSE IF bad # <<>> THEN early(bad[1], bad[2])
       ELSE \E r \in {register_face(known_faces, images_data, name)} :
                Registered("register_multiple", r, io, "Error")

\* POST /recognize
recognize(image) ==
    /\ res' = IF ~image.valid
              THEN [Result("recognize", FALSE, "InvalidImageFormat", 0, "") EXCEPT !.image = image]
              ELSE LET r == recognize_face(known_faces, image)
                   IN [Result("recognize", TRUE, r.msg, 0, "")
                         EXCEPT !.image = image, !.faces = r.faces]
    /\ UNCHANGED <<known_faces, disk, th>>

\* POST /detect_faces: the live preview's duplicate warning
detect_faces_endpoint(image) ==
    /\ res' = IF ~image.valid
              THEN [Result("detect_faces", FALSE, "InvalidImageFormat", 0, "") EXCEPT !.image = image]
              ELSE LET faces == detect_faces(image)
                       dups == [k \in 1..Len(faces) |->
                                   check_face_similarity(known_faces,
                                       extract_face_features(image, faces[k]),
                                       PreviewThreshold)]
                       has_duplicate == \E k \in 1..Len(faces) : dups[k] # <<>>
                   IN [Result("detect_faces", ~has_duplicate,
                              IF has_duplicate THEN "DuplicateDetected" ELSE "Detected",
                              0, "") EXCEPT !.image = image, !.dups = dups]
    /\ UNCHANGED <<known_faces, disk, th>>

\* POST /delete_face/<name>
delete_face(name, io) ==
    IF HasName(known_faces, name)
    THEN /\ known_faces' = DictDel(known_faces, name)
         /\ disk' = save_known_faces(known_faces', disk, io)
         /\ res' = (IF io = "ok" THEN Result("delete_face", TRUE, "Deleted", 0, name)
                    ELSE Result("delete_face", FALSE, "Error", 0, name))
         /\ UNCHANGED th
    ELSE /\ io = "ok"
         /\ res' = Result("delete_face", FALSE, "FaceNotFound", 0, name)
         /\ UNCHANGED <<known_faces, disk, th>>

(***************************************************************************)
(* Inputs                                                                   *)
(***************************************************************************)
imgY == Img(<<dY>>)
imgA == Img(<<dA>>)
imgB == Img(<<dB>>)
\* too few and too many photos
WrongCountSeqs ==
    {<<imgY, imgY>>, <<NoFaceImage, imgY>>, <<imgY, imgY, imgY, imgY>>}
\* photo bursts that pass on an empty store
GoodBursts ==
    {<<imgY, imgY, imgY>>, <<imgB, imgB, imgB>>, <<imgA, imgA, imgA>>,
     <<imgY, imgY, imgB>>, <<imgY, imgB, imgB>>, <<imgY, imgA, imgB>>}
\* photo bursts with a photo that shows no face or two
DefectBursts ==
    {<<NoFaceImage, imgY, imgY>>, <<imgY, NoFaceImage, imgY>>,
     <<imgB, NoFaceImage, imgY>>, <<TwoFaceImage, imgA, imgA>>,
     <<imgB, TwoFaceImage, imgY>>, <<imgY, imgB, TwoFaceImage>>,
     <<NoFaceImage, TwoFaceImage, imgA>>}
\* payloads with a photo that does not decode
UndecodableBursts ==
    {<<InvalidImage, imgY, imgY>>, <<imgY, InvalidImage, NoFaceImage>>,
     <<NoFaceImage, imgY, InvalidImage>>}
CoreImageSeqs == GoodBursts \cup DefectBursts \cup WrongCountSeqs
RouteImageSeqs ==
    GoodBursts
    \cup {<<imgB, TwoFaceImage, imgY>>, <<imgB, NoFaceImage, imgY>>,
          <<NoFaceImage, imgY, imgY>>, <<imgY, NoFaceImage>>,
          <<imgY, imgY, imgY, imgY>>}
    \cup UndecodableBursts
QueryImages ==
    {InvalidImage, NoFaceImage}
    \cup {Img(<<d>>) : d \in QueryDescs}
    \cup {Img([k \in 1..n |-> IF k % 2 = 1 THEN dB ELSE dY]) : n \in 2..MaxQueryFaces}

\* the routes, every call completing before the next one starts; no write fails
Next ==
    \/ Restart /\ UNCHANGED call
    \/ \E images \in RouteImageSeqs, name \in Names \cup {""} :
           register_multiple(name, images, "ok") /\ UNCHANGED call
    \/ \E image \in QueryImages : recognize(image) /\ UNCHANGED call
    \/ \E name \in Names \cup {"nobody"} : delete_face(name, "ok") /\ UNCHANGED call

Spec == Init /\ [][Next]_vars

RouteEnrollSeqs ==
    {<<imgY, imgY, imgY>>, <<imgB, imgB, imgB>>, <<imgY, imgY, imgB>>,
     <<imgB, TwoFaceImage, imgY>>, <<imgY, NoFaceImage>>,
     <<imgY, InvalidImage, NoFaceImage>>}

\* enrollment from a first start, by register_face itself and through the route,
\* the arguments of each call logged; the preview's duplicate check; delete
NextEnroll ==
    \/ \E images \in CoreImageSeqs, name \in Names :
           RegisterFace(images, name, "ok") /\ Logged(name, images)
    \/ \E images \in RouteEnrollSeqs, name \in Names \cup {""} :
           register_multiple(name, images, "ok") /\ Logged(name, images)
    \/ \E image \in QueryImages : detect_faces_endpoint(image) /\ Logged("", <<>>)
    \/ \E name \in Names : delete_face(name, "ok") /\ Logged(name, <<>>)

SpecEnroll == InitEmpty /\ [][NextEnroll]_vars

\* the mutating routes when a write of FACE_DATA_FILE can fail
IoBursts ==
    {<<imgY, imgY, imgY>>, <<imgB, imgB, imgB>>, <<imgY, imgA, imgB>>,
     <<imgY, NoFaceImage, imgY>>}

NextIO ==
    \/ Restart /\ UNCHANGED call
    \/ \E images \in IoBursts, name \in Names, io \in IoOutcomes :
           register_multiple(name, images, io) /\ UNCHANGED call
    \/ \E name \in Names \cup {"nobody"}, io \in IoOutcomes :
           delete_face(name, io) /\ UNCHANGED call

SpecIO == Init /\ [][NextIO]_vars

(***************************************************************************)
(* Overlapping register_face calls: Flask serves each request on a thread   *)
(* of its own and register_face takes no lock.  A step is one of the        *)
(* stretches of register_face between which another thread can run.         *)
(***************************************************************************)
Others(t) == Threads \ {t}

\* lines 107-112: the count and the name are checked
T_Begin(t, images, name) ==
    /\ th[t].pc = "idle"
    /\ LET alone == \A u \in Others(t) : th[u].pc = "idle"
           mine == IF Len(images) # RequiredImages
                   THEN [Idle EXCEPT !.ret = "WrongSampleCount"]
                   ELSE IF HasName(known_faces, name)
                   THEN [Idle EXCEPT !.ret = "NameAlreadyRegistered", !.name = name]
                   ELSE [Idle EXCEPT !.pc = "loop", !.name = name,
                                     !.images = images, !.i = 1]
       IN th' = [u \in Threads |->
                    IF u = t THEN [mine EXCEPT !.solo = alone]
                    ELSE IF th[u].pc = "idle" THEN th[u]
                    ELSE [th[u] EXCEPT !.solo = FALSE]]
    /\ UNCHANGED <<known_faces, disk, res, call>>

\* lines 117-135: one pass of the loop, against the dict as it is now
T_Image(t) ==
    /\ th[t].pc = "loop"
    /\ LET me == th[t]
           faces == detect_faces(me.images[me.i])
           features == extract_face_features(me.images[me.i], faces[1])
           duplicate_name == check_face_similarity(known_faces, features, EnrollThreshold)
           after ==
               IF Len(faces) = 0 THEN [me EXCEPT !.pc = "idle", !.ret = "NoFaceDetected"]
               ELSE IF Len(faces) > 1
               THEN [me EXCEPT !.pc = "idle", !.ret = "MultipleFacesDetected"]
               ELSE IF Truthy(duplicate_name)
               THEN [me EXCEPT !.pc = "idle", !.ret = "FaceAlreadyRegistered"]
               ELSE [me EXCEPT !.all = Append(me.all, features), !.i = me.i + 1,
                               !.pc = IF me.i = Len(me.images) THEN "insert" ELSE "loop"]
       IN th' = [th EXCEPT ![t] = after]
    /\ UNCHANGED <<known_faces, disk, res, call>>

\* lines 138-159: self.known_faces[name] = {...}
T_Insert(t) ==
    /\ th[t].pc = "insert"
    /\ known_faces' = DictSet(known_faces,
                              NewRecord(th[t].name, th[t].all, Len(th[t].images)))
    /\ th' = [th EXCEPT ![t].pc = "save",
                        ![t].replaced = (th[t].name \in KeyNames(known_faces))]
    /\ UNCHANGED <<disk, res, call>>

\* lines 161-163: save_known_faces() and the return
T_Save(t) ==
    /\ th[t].pc = "save"
    /\ disk' = save_known_faces(known_faces, disk, "ok")
    /\ th' = [th EXCEPT ![t].pc = "idle", ![t].ret = "Registered"]
    /\ UNCHANGED <<known_faces, res, call>>

ConcBursts == {<<imgY, imgY, imgY>>, <<imgB, imgB, imgB>>, <<NoFaceImage, imgY, imgY>>}
\* one name more than the serial calls use: two callers of one name after two
\* callers of two
ConcNames == {NamePool[i] : i \in 1..(NumNames + 1)}

NextConc ==
    \/ \E t \in Threads, images \in ConcBursts, name \in ConcNames : T_Begin(t, images, name)
    \/ \E t \in Threads : T_Image(t)
    \/ \E t \in Threads : T_Insert(t)
    \/ \E t \in Threads : T_Save(t)

SpecConc == Init /\ [][NextConc]_vars

(***************************************************************************)
(* Vocabulary of the properties                                             *)
(***************************************************************************)
Feat(d) == [num |-> d, den |-> 1]
Records(store) == {store[i] : i \in 1..Len(store)}

\* a greatest element of a set of similarities, NaN aside, and 0 when there is none
SimMax(S) ==
    LET T == {s \in S : ~s.nan} \cup {Zero}
    IN CHOOSE s \in T : \A u \in T : ~SimGt(u, s)

SimEq(a, b) == ~a.nan /\ ~b.nan /\ ~SimGt(a, b) /\ ~SimGt(b, a)

\* the record's samples are consulted for the query f
Consulted(r, f) == r.has_all /\ SimLtPct(Similarity(f, r.features), StrongPrimary)

SampleSims(r, f) == {Similarity(f, r.all_features[j]) : j \in 1..Len(r.all_features)}

\* every similarity recognize_face computes for the query f
ObservedSims(store, f) ==
    {Similarity(f, r.features) : r \in Records(store)}
    \cup UNION {SampleSims(r, f) : r \in {x \in Records(store) : Consulted(x, f)}}

\* the similarity a record ends with: its primary similarity, or with its samples
\* consulted the greatest of the primary and the sample similarities
Eff(r, f) ==
    IF Consulted(r, f)
    THEN SimMax({Similarity(f, r.features)} \cup SampleSims(r, f))
    ELSE Similarity(f, r.features)

Matches(r, f) ==
    IF Consulted(r, f) THEN SimGtPct(Eff(r, f), IndividualThreshold)
    ELSE SimGtPct(Similarity(f, r.features), DefaultThreshold)

\* record j strictly raises the greatest similarity of the records before it
Raises(store, j, f) ==
    /\ SimGt(Eff(store[j], f), Zero)
    /\ \A i \in 1..(j - 1) :
           Eff(store[i], f).nan \/ SimGt(Eff(store[j], f), Eff(store[i], f))

PerRecordIdentity(store, f) ==
    LET W == {j \in 1..Len(store) : Raises(store, j, f) /\ Matches(store[j], f)}
    IN IF W = {} THEN "Unknown"
       ELSE store[CHOOSE j \in W : \A k \in W : k <= j].name

PerRecordTiered(store, f) ==
    [name |-> PerRecordIdentity(store, f),
     confidence |-> Confidence(SimMax({Eff(store[j], f) : j \in 1..Len(store)}))]

\* the procedure of the design: primaries at 0.6 over all records; only when the
\* best primary similarity is below 0.8, the samples of the one record that has
\* it, matched-ness then re-evaluated at 0.75 on the greatest similarity found
DesignTiered(store, f) ==
    LET P(j) == Similarity(f, store[j].features)
        best == SimMax({P(j) : j \in 1..Len(store)})
        B == {j \in 1..Len(store) : SimEq(P(j), best)}
        b == CHOOSE j \in B : \A k \in B : j <= k
        refine == B # {} /\ SimLtPct(best, StrongPrimary) /\ store[b].has_all
        refined == SimMax({best} \cup SampleSims(store[b], f))
    IN IF B = {} THEN [name |-> "Unknown", confidence |-> Confidence(best)]
       ELSE IF refine
       THEN [name |-> IF SimGtPct(refined, IndividualThreshold)
                      THEN store[b].name ELSE "Unknown",
             confidence |-> Confidence(refined)]
       ELSE [name |-> IF SimGtPct(best, DefaultThreshold)
                      THEN store[b].name ELSE "Unknown",
             confidence |-> Confidence(best)]

Recognized == res.op = "recognize" /\ res.image.valid
QueryFeat(k) == Feat(res.image.faces[k])

\* C4 as claimed: recognize_face emits what the design's procedure emits
C4_AsDesigned ==
    Recognized =>
        \A k \in 1..Len(res.faces) : res.faces[k] = DesignTiered(known_faces, QueryFeat(k))

\* C4: recognize_face emits, per detected face, the identity and confidence of the
\* tiered decision made record by record: each record whose own primary similarity
\* is below 0.8 has its samples consulted and is matched at 0.75 on the greatest of
\* its similarities, every other record is matched on its primary at 0.6; the
\* confidence is the greatest per-record similarity, the identity the last record
\* that strictly raised the running maximum and matched
C4_PerRecordTiered ==
    Recognized =>
        /\ Len(res.faces) = Len(res.image.faces)
        /\ \A k \in 1..Len(res.faces) :
               res.faces[k] = PerRecordTiered(known_faces, QueryFeat(k))

\* a face whose best primary belongs to one record while another record matches
\* on a sample
C4_Witness ==
    /\ Recognized
    /\ \E k \in 1..Len(res.faces) :
           /\ res.faces[k].name # "Unknown"
           /\ res.faces[k] # DesignTiered(known_faces, QueryFeat(k))
           /\ \E r \in Records(known_faces) : Consulted(r, QueryFeat(k))

AllSampled == \A r \in Records(known_faces) : r.has_all

\* record r attains the similarity top for the query f
Attains(r, f, top) ==
    \/ SimEq(Similarity(f, r.features), top)
    \/ Consulted(r, f) /\ \E s \in SampleSims(r, f) : SimEq(s, top)

FirstAttaining(store, name, f, top) ==
    \E j \in 1..Len(store) :
        /\ store[j].name = name
        /\ Attains(store[j], f, top)
        /\ \A i \in 1..(j - 1) : ~Attains(store[i], f, top)

NoFaceAnswer ==
    (res.op = "recognize" /\ res.image.valid /\ res.image.faces = <<>>) =>
        res.ok /\ res.faces = <<>> /\ res.msg = "No face detected"

Winner(floorOk(_)) ==
    (Recognized /\ AllSampled) =>
        \A k \in 1..Len(res.faces) :
            LET top == SimMax(ObservedSims(known_faces, QueryFeat(k)))
            IN /\ res.faces[k].confidence = Confidence(top)
               /\ res.faces[k].name # "Unknown" =>
                      /\ FirstAttaining(known_faces, res.faces[k].name, QueryFeat(k), top)
                      /\ floorOk(res.faces[k].confidence)

Above75(c) == c > 100 * IndividualThreshold
AtLeast75(c) == c >= 100 * IndividualThreshold

\* C10 as claimed: the confidence of a named face is above 75.0
C10_Above75 == NoFaceAnswer /\ Winner(Above75)

\* C10: with every record carrying its samples, the confidence of each detected
\* face is the greatest similarity observed over all records, rounded to two
\* decimals, also when the identity is "Unknown"; a named identity is the first
\* record in store order attaining that similarity and its confidence is at
\* least 75.0; an image without a face is answered with success, an empty list
\* and the no-face message
C10_Winner == NoFaceAnswer /\ Winner(AtLeast75)

\* two records attain the greatest similarity and the earlier one is named
C10_Witness ==
    /\ Recognized /\ AllSampled
    /\ \E k \in 1..Len(res.faces) :
           LET top == SimMax(ObservedSims(known_faces, QueryFeat(k)))
           IN /\ Len(known_faces) >= 2
              /\ Attains(known_faces[1], QueryFeat(k), top)
              /\ Attains(known_faces[2], QueryFeat(k), top)
              /\ res.faces[k].name = known_faces[1].name

\* a named face whose confidence is exactly 75.0
C10_Rounded ==
    /\ Recognized /\ AllSampled
    /\ \E k \in 1..Len(res.faces) :
           res.faces[k].name # "Unknown" /\ res.faces[k].confidence = 100 * IndividualThreshold

(***************************************************************************)
(* Enrollment                                                               *)
(***************************************************************************)
EnrollOps == {"register_face", "register_multiple"}
Least(S) == CHOOSE i \in S : \A k \in S : i <= k

\* record r has a descriptor of similarity above t with f
GuardMatches(r, f, t) ==
    \/ SimGtPct(Similarity(f, r.features), t)
    \/ r.has_all /\ \E j \in 1..Len(r.all_features) :
                        SimGtPct(Similarity(f, r.all_features[j]), t)

\* the first record in store order that matches, if any
GuardVerdict(store, f, t) ==
    LET M == {j \in 1..Len(store) : GuardMatches(store[j], f, t)}
    IN IF M = {} THEN <<>> ELSE <<store[Least(M)].name>>

OneFace(img) == Len(img.faces) = 1
SampleOf(img) == Feat(img.faces[1])
IsDuplicate(store, img) ==
    OneFace(img) /\ GuardVerdict(store, SampleOf(img), EnrollThreshold) # <<>>

\* C1: a register_face call, made directly or by the route, that fails a
\* precondition (photo count, name taken, a photo without exactly one face, a
\* sample the guard matches at 0.85) leaves the in-memory store and the file as
\* they were, also when it fails on the 2nd or 3rd photo
C1_AllOrNothing ==
    [][(res'.op \in EnrollOps /\ ~res'.ok) =>
           (known_faces' = known_faces /\ disk' = disk)]_vars

\* the guard rejects the 2nd or 3rd photo, the earlier ones accepted
C1_Witness ==
    /\ res.op = "register_face" /\ ~res.ok /\ res.idx >= 2
    /\ res.msg = "FaceAlreadyRegistered"
    /\ call.name \notin KeyNames(known_faces)
    /\ disk = json_dump(known_faces)

\* the failure register_face reports for a photo that fails
PhotoFailure(store, img) ==
    IF Len(img.faces) = 0 THEN "NoFaceDetected"
    ELSE IF Len(img.faces) > 1 THEN "MultipleFacesDetected"
    ELSE "FaceAlreadyRegistered"

\* count, then name, then photo by photo: one face, then no duplicate
CoreVerdict(store, images, name) ==
    LET Bad == {i \in 1..Len(images) :
                   ~OneFace(images[i]) \/ IsDuplicate(store, images[i])}
    IN IF Len(images) # RequiredImages THEN <<"WrongSampleCount", 0>>
       ELSE IF name \in KeyNames(store) THEN <<"NameAlreadyRegistered", 0>>
       ELSE IF Bad # {} THEN <<PhotoFailure(store, images[Least(Bad)]), Least(Bad)>>
       ELSE <<"Registered", 0>>

\* the routes: name given, count, every photo decodes and shows one face, and
\* only then register_face
RouteVerdict(store, images, name) ==
    LET Bad == {i \in 1..Len(images) : ~images[i].valid \/ ~OneFace(images[i])}
    IN IF name = "" THEN <<"NameRequired", 0>>
       ELSE IF Len(images) # RequiredImages THEN <<"WrongSampleCount", 0>>
       ELSE IF Bad # {}
       THEN <<IF images[Least(Bad)].valid THEN "NotExactlyOneFace"
              ELSE "InvalidImageFormat", Least(Bad)>>
       ELSE CoreVerdict(store, images, name)

\* the order as claimed: count, name, every photo's face count, then duplicates
ClaimedVerdict(store, images, name) ==
    IF Len(images) # RequiredImages THEN "WrongSampleCount"
    ELSE IF name = "" \/ name \in KeyNames(store) THEN "NameAlreadyRegistered"
    ELSE IF \E i \in 1..Len(images) : ~OneFace(images[i]) THEN "FaceCount"
    ELSE IF \E i \in 1..Len(images) : IsDuplicate(store, images[i])
    THEN "FaceAlreadyRegistered"
    ELSE "Registered"

Category(msg) ==
    IF msg \in {"NoFaceDetected", "MultipleFacesDetected"} THEN "FaceCount" ELSE msg

\* C2 as claimed: register_face reports the first violated precondition in the
\* order count, name, face counts of all photos, duplicates
C2_ClaimedOrder ==
    [][res'.op = "register_face" =>
           Category(res'.msg) = ClaimedVerdict(known_faces, call'.images, call'.name)]_vars

\* C2: register_face, for a non-empty name, checks the photo count, then that the
\* name is not enrolled, then photo by photo in submission order that the photo
\* shows exactly one face and that its descriptor matches no record at 0.85, and
\* reports the first failure met; a wrong count always gives WrongSampleCount;
\* it reports FaceAlreadyRegistered only for a photo that shows one face, all
\* photos before it having passed.  The routes reject an empty name, then a
\* wrong count, then the first photo that does not decode or does not show one
\* face, before they call register_face, so that through a route a call with a
\* photo without exactly one face never fails with FaceAlreadyRegistered
C2_CheckOrder ==
    [][/\ res'.op = "register_face" =>
              <<res'.msg, res'.idx>> = CoreVerdict(known_faces, call'.images, call'.name)
       /\ res'.op = "register_multiple" =>
              <<res'.msg, res'.idx>> = RouteVerdict(known_faces, call'.images, call'.name)
       /\ (res'.op \in EnrollOps /\ Len(call'.images) # RequiredImages /\ call'.name # "") =>
              res'.msg = "WrongSampleCount"
       /\ (res'.op = "register_multiple" /\ res'.msg = "FaceAlreadyRegistered") =>
              \A i \in 1..Len(call'.images) : OneFace(call'.images[i])]_vars

\* register_face reports a duplicate although a later photo shows no face or two
C2_Witness ==
    /\ res.op = "register_face" /\ res.msg = "FaceAlreadyRegistered"
    /\ \E i \in 1..Len(call.images) : i > res.idx /\ ~OneFace(call.images[i])

\* C3: check_face_similarity returns, for the preview at 0.8 and for enrollment
\* at 0.85, the name of the first record in store order whose primary or one of
\* whose samples has similarity above the threshold with the descriptor, and none
\* exactly when no record has; an otherwise valid enrollment of a new name with
\* a matching sample fails with FaceAlreadyRegistered, names a record that
\* matches the reported photo, and leaves the store as it was
C3_DuplicateGuard ==
    [][/\ (res'.op = "detect_faces" /\ res'.image.valid) =>
              /\ Len(res'.dups) = Len(res'.image.faces)
              /\ \A k \in 1..Len(res'.dups) :
                     res'.dups[k] = GuardVerdict(known_faces', Feat(res'.image.faces[k]),
                                                 PreviewThreshold)
       /\ (/\ res'.op \in EnrollOps
           /\ Len(call'.images) = RequiredImages
           /\ call'.name \notin KeyNames(known_faces) \cup {""}
           /\ \A i \in 1..Len(call'.images) :
                  call'.images[i].valid /\ OneFace(call'.images[i])
           /\ \E i \in 1..Len(call'.images) : IsDuplicate(known_faces, call'.images[i])) =>
              /\ ~res'.ok /\ res'.msg = "FaceAlreadyRegistered"
              /\ known_faces' = known_faces
       /\ (res'.op \in EnrollOps /\ res'.msg = "FaceAlreadyRegistered") =>
              /\ <<res'.who>> = GuardVerdict(known_faces, SampleOf(call'.images[res'.idx]),
                                             EnrollThreshold)
              /\ \A i \in 1..(res'.idx - 1) : ~IsDuplicate(known_faces, call'.images[i])]_vars

\* the preview names the second record, which matches on a sample and not on its
\* primary, the first record matching on nothing
C3_Witness ==
    /\ res.op = "detect_faces" /\ Len(known_faces) >= 2
    /\ \E k \in 1..Len(res.dups) :
           /\ res.dups[k] = <<known_faces[2].name>>
           /\ ~SimGtPct(Similarity(Feat(res.image.faces[k]), known_faces[2].features),
                        PreviewThreshold)

\* the samples of the photos of a call, in submission order
Samples(images) == [k \in 1..Len(images) |-> SampleOf(images[k])]

\* C9: from an empty store, after enroll and delete calls made one at a time,
\* every record holds 3 samples and image_count 3, no sample of a record has
\* similarity above 0.85 with the primary or a sample of a record enrolled before
\* it under another name, and a successful enrollment stores the samples of its
\* photos in submission order
C9_OneFaceOneName ==
    /\ \A j \in 1..Len(known_faces) :
           /\ known_faces[j].has_all
           /\ Len(known_faces[j].all_features) = RequiredImages
           /\ known_faces[j].image_count = RequiredImages
           /\ \A i \in 1..(j - 1) :
                  /\ known_faces[i].name # known_faces[j].name
                  /\ \A k \in 1..Len(known_faces[j].all_features) :
                         ~GuardMatches(known_faces[i], known_faces[j].all_features[k],
                                       EnrollThreshold)
    /\ (res.op \in EnrollOps /\ res.ok) =>
           /\ known_faces # <<>>
           /\ known_faces[Len(known_faces)].name = call.name
           /\ known_faces[Len(known_faces)].all_features = Samples(call.images)

\* a second name enrolled from photos that differ
C9_Witness ==
    /\ res.op \in EnrollOps /\ res.ok /\ Len(known_faces) = 2
    /\ known_faces[2].name = call.name
    /\ known_faces[2].all_features[1] # known_faces[2].all_features[3]

(***************************************************************************)
(* Deletion, the file, overlapping calls                                    *)
(***************************************************************************)
Without(store, name) ==
    LET Other(r) == r.name # name
    IN SelectSeq(store, Other)

\* C5: a delete of an enrolled name whose write succeeds removes that record and
\* no other from the in-memory store, and the file then loads to the store
\* without it; a delete of a name that is not enrolled is answered not found and
\* leaves the store and the file as they were
C5_Delete ==
    [][res'.op = "delete_face" =>
           IF res'.who \in KeyNames(known_faces)
           THEN res'.msg = "Deleted" =>
                    /\ res'.ok
                    /\ res'.who \notin KeyNames(known_faces')
                    /\ known_faces' = Without(known_faces, res'.who)
                    /\ load_known_faces(disk') = known_faces'
                    /\ res'.who \notin KeyNames(load_known_faces(disk'))
           ELSE /\ ~res'.ok /\ res'.msg = "FaceNotFound"
                /\ known_faces' = known_faces /\ disk' = disk]_vars

\* a record deleted, another one kept
C5_Witness ==
    /\ res.op = "delete_face" /\ res.msg = "Deleted"
    /\ known_faces # <<>>
    /\ res.who \notin KeyNames(known_faces)
    /\ load_known_faces(disk) = known_faces

\* C6 as claimed: between calls the file loads to the store in memory
C6_Mirror == load_known_faces(disk) = known_faces

\* C7 as claimed: a call answered with the error of a failed write leaves the
\* store in memory as it was
C7_FailedWriteKeepsMemory ==
    [][(res'.op \in {"register_multiple", "delete_face"} /\ res'.msg = "Error") =>
           known_faces' = known_faces]_vars

\* C8: register_face takes no lock; a call that no other call overlaps never
\* replaces a record; overlapping calls can both pass their checks and return
\* success, one overwriting the record the other inserted or one face ending under
\* two names
C8_SerialNeverReplaces ==
    [][\A t \in Threads :
           (th[t].pc = "insert" /\ th'[t].pc = "save" /\ th[t].solo) =>
               /\ th[t].name \notin KeyNames(known_faces)
               /\ Len(known_faces') = Len(known_faces) + 1
               /\ SubSeq(known_faces', 1, Len(known_faces)) = known_faces]_vars

\* both overlaps have happened and every call has returned success: one face is
\* enrolled under two names, and a call has overwritten the record of another
C8_Witness ==
    /\ \A t \in Threads : th[t].pc = "idle" /\ th[t].ret = "Registered" /\ ~th[t].solo
    /\ \E t \in Threads : th[t].replaced
    /\ \E i, j \in 1..Len(known_faces) :
           /\ i # j
           /\ known_faces[i].name # known_faces[j].name
           /\ known_faces[i].all_features = known_faces[j].all_features

====
